---- MODULE Spec2Model ----
(***************************************************************************)
(* A model of the vulcan-agent core: the docker Execution Backend          *)
(* (Backend.Run / Backend.run), the Aborted-Job Cache (Checks.IsAborted /  *)
(* Checks.get), the Retry Executor (Retryer.WithRetries) and the shutdown  *)
(* sequence of MainWithExitCode.                                           *)
(*                                                                         *)
(* Errors are modelled as their wrapped-cause chain: a sequence of error   *)
(* texts, outermost first; the nil error is the empty chain.               *)
(***************************************************************************)
EXTENDS Integers, Sequences, FiniteSets, TLC

VARIABLES
    \* ---- Execution Backend, one entry per job ----
    registry,     \* b.config.Server != ""
    pullMax,      \* b.config.BackoffMaxRetries
    bPc,          \* position of Run / run for the job
    bCtx,         \* state of the context handed to Run
    bPull,        \* cursor of the pull backoff policy (signals consumed)
    bPullErr,     \* the err of the last b.cli.Pull
    bWait,        \* what ContainerWait returned: exit status and error
    bRunRet,      \* what Run returned to its caller
    bContID,      \* contID of run (NoCont until Create returns one)
    bErr,         \* the err variable of run
    bLogs,        \* the multiplexed stream r returned by ContainerLogs
    bOut,         \* the out variable of run
    bSend,        \* the RunResult run is about to send on res
    bChan,        \* the values the caller has received on res
    bDefer,       \* the deferred calls of run, last registered first
    bEvents,      \* the driver calls issued and the result deliveries, in order
    \* ---- Retry Executor, one WithRetries call ----
    rCfg,         \* the Retryer value: retries and the policy's max retries
    rSt,          \* the locals of WithRetries
    rHist,        \* the errors exec returned, in call order (ExecTester)
    \* ---- Aborted-Job Cache ----
    canceled,     \* c.canceled
    aPrev,        \* c.canceled as it was before it was last replaced
    aGood,        \* the identifiers of the last snapshot a successful fetch installed
    aCfg,         \* the Retryer the cache was built with
    aPc,          \* position of each IsAborted call
    aID,          \* the ID argument of the call
    aIds,         \* the ids variable of get, captured by the closure
    aSt,          \* the locals of the WithRetries call made by get
    aGetErr,      \* the err variable of get
    aRet,         \* what IsAborted returned
    aReqs,        \* HTTP requests issued by the current call
    aHist,        \* how each of them was answered, in order
    aFetch,       \* what WithRetries returned to get in the current call
    \* ---- Shutdown Coordinator: MainWithExitCode from the trigger select on ----
    mPc,          \* position of MainWithExitCode
    sig,          \* signals held by the sig channel (capacity 1)
    fired,        \* the stop triggers that have fired so far
    ctxqr,        \* state of the context handed to the reader and the tracker
    cancelqrCalls,\* invocations of cancelqr
    mErr,         \* the err variable of MainWithExitCode
    mLog,         \* messages written with l.Errorf, in order
    mSteps,       \* the steps MainWithExitCode has completed, in order
    mExit,        \* <<>> while running, then <<exit code>>
    tCloses,      \* whether Track closes its channel after its value
    tPc,          \* position of the goroutine behind stopperDone
    tErr,         \* the value it sends
    qPc,          \* position of the goroutine behind qrdone
    qErr,         \* the value it sends
    srvShutdown,  \* srv.Shutdown has been called
    hPc,          \* position of the goroutine running ListenAndServe
    hErr          \* the value it sends on httpDone

bVars == <<registry, pullMax, bPc, bCtx, bPull, bPullErr, bWait, bRunRet, bContID, bErr, bLogs,
           bOut, bSend, bChan, bDefer, bEvents>>
rVars == <<rCfg, rSt, rHist>>
aVars == <<canceled, aPrev, aGood, aCfg, aPc, aID, aIds, aSt, aGetErr, aRet,
           aReqs, aHist, aFetch>>
mVars == <<mPc, sig, fired, ctxqr, cancelqrCalls, mErr, mLog, mSteps, mExit,
           tCloses, tPc, tErr, qPc, qErr, srvShutdown, hPc, hErr>>
vars == <<bVars, rVars, aVars, mVars>>

----------------------------------------------------------------------------
(* Bounds *)

MaxCeiling == 2
MaxPullRetries == 1

----------------------------------------------------------------------------
(* Errors: wrapped-cause chains *)

NilErr == <<>>
ErrPermanent == "permanet error"
ContextCanceled == "context canceled"
DeadlineExceeded == "context deadline exceeded"

\* errors.Is(err, target): target occurs somewhere in the chain of err.
ErrorsIs(err, target) == \E i \in 1..Len(err) : err[i] = target

\* fmt.Errorf("<msg>: %w", err)
Wrap(msg, err) == <<msg>> \o err

----------------------------------------------------------------------------
(* The backoff policy of lestrrat-go/backoff: a cursor started from a      *)
(* policy built WithMaxRetries(m) signals Next for the first attempt and   *)
(* for m retries, and Done once they are used up.                          *)

PolicyNext(nexts, maxRetries) == nexts <= maxRetries
PolicyDone(nexts, maxRetries) == nexts > maxRetries

----------------------------------------------------------------------------
(* Retry Executor: Retryer.WithRetries *)

\* The errors the operation under retry may return (retryer_test.go): nil, two
\* plain errors, the sentinel itself and an error wrapping the sentinel.
ErrTest == <<"test">>
ErrOther == <<"other">>
ErrWrappedPermanent == <<"a permanent error", ErrPermanent>>
ExecOutcomes == {NilErr, ErrTest, ErrOther, ErrWrappedPermanent, <<ErrPermanent>>}

\* The Retryer values: NewRetryer builds both fields from the same retries
\* argument; the tests build the struct by hand.
NewRetryer(retries) == [retries |-> retries, policyMax |-> retries]
Retryers == [retries : 0..MaxCeiling, policyMax : 0..MaxCeiling]

\* The Retryers the cache is given: built by NewRetryer, or one whose policy
\* gives up before the ceiling is reached.
AbortedRetryers ==
    {NewRetryer(n) : n \in 0..MaxCeiling} \cup {[retries |-> MaxCeiling, policyMax |-> 0]}

NoCall == [pc |-> "idle", retries |-> -1, err |-> NilErr, ret |-> NilErr, nexts |-> 0]

\* retry, cancel := b.policy.Start(...); retries := -1
RetryBegin == [pc |-> "exec", retries |-> -1, err |-> NilErr, ret |-> NilErr, nexts |-> 0]

\* Variant: the sentinel compared by identity, err == ErrPermanent.
IsPermanentIdentity(err) == err = <<ErrPermanent>>

\* errors.Is(err, ErrPermanent)
IsPermanent(err) == ErrorsIs(err, ErrPermanent)

\* Variant: the first call counted as a retry (retries starting at 0).
RetriesExhaustedCountingFirst(retries, ceiling) == retries + 1 = ceiling

\* Variant: no ceiling test, the policy alone ends the loop.
RetriesExhaustedNever(retries, ceiling) == FALSE

\* retries == b.retries
RetriesExhausted(retries, ceiling) == retries = ceiling

\* Variant: the loop body without the err == nil return.
AfterExecNoNilReturn(st, err, ceiling) ==
    LET r == st.retries + 1 IN
    IF IsPermanent(err)
    THEN [st EXCEPT !.err = err, !.retries = r, !.pc = "returned", !.ret = err]
    ELSE IF RetriesExhausted(r, ceiling)
    THEN [st EXCEPT !.err = err, !.retries = r, !.pc = "returned", !.ret = err]
    ELSE [st EXCEPT !.err = err, !.retries = r, !.pc = "select"]

\* One pass of the loop body up to the select: err is what exec() returned.
AfterExec(st, err, ceiling) ==
    LET r == st.retries + 1 IN
    IF err = NilErr
    THEN [st EXCEPT !.err = err, !.retries = r, !.pc = "returned", !.ret = NilErr]
    ELSE IF IsPermanent(err)
    THEN [st EXCEPT !.err = err, !.retries = r, !.pc = "returned", !.ret = err]
    ELSE IF RetriesExhausted(r, ceiling)
    THEN [st EXCEPT !.err = err, !.retries = r, !.pc = "returned", !.ret = err]
    ELSE [st EXCEPT !.err = err, !.retries = r, !.pc = "select"]

\* case <-retry.Done(): return err
AfterDone(st) == [st EXCEPT !.pc = "returned", !.ret = st.err]

\* case <-retry.Next(): loop again
AfterNext(st) == [st EXCEPT !.pc = "exec", !.nexts = @ + 1]

WithRetriesCall ==
    /\ rSt.pc = "idle"
    /\ rSt' = RetryBegin
    /\ UNCHANGED <<rCfg, rHist, bVars, aVars, mVars>>

WithRetriesExec ==
    /\ rSt.pc = "exec"
    /\ \E err \in ExecOutcomes :
        /\ rHist' = Append(rHist, err)
        /\ rSt' = AfterExec(rSt, err, rCfg.retries)
    /\ UNCHANGED <<rCfg, bVars, aVars, mVars>>

WithRetriesDone ==
    /\ rSt.pc = "select"
    /\ PolicyDone(rSt.nexts, rCfg.policyMax)
    /\ rSt' = AfterDone(rSt)
    /\ UNCHANGED <<rCfg, rHist, bVars, aVars, mVars>>

WithRetriesNext ==
    /\ rSt.pc = "select"
    /\ PolicyNext(rSt.nexts, rCfg.policyMax)
    /\ rSt' = AfterNext(rSt)
    /\ UNCHANGED <<rCfg, rHist, bVars, aVars, mVars>>

NextRetryer == WithRetriesCall \/ WithRetriesExec \/ WithRetriesDone \/ WithRetriesNext

----------------------------------------------------------------------------
(* Execution Backend: Backend.Run, Backend.run, pullWithBackoff,           *)
(* readContainerLogs                                                       *)

Jobs == {"j1", "j2"}

\* abortTimeout, in seconds
AbortTimeout == 5

NoCont == "none"
ContOf(j) == "cont-" \o j

\* A driver call or a delivery on the result channel, as the outside sees it.
Event(op, ctx, cont) ==
    [op |-> op, ctx |-> ctx, cont |-> cont, force |-> FALSE, timeout |-> 0]
\* ContainerRemove(context.Background(), contID, {Force: true})
RemoveEvent(cont) ==
    [op |-> "ContainerRemove", ctx |-> "background", cont |-> cont,
     force |-> TRUE, timeout |-> 0]
\* ContainerStop(context.Background(), contID, &timeout)
StopEvent(cont) ==
    [op |-> "ContainerStop", ctx |-> "background", cont |-> cont,
     force |-> FALSE, timeout |-> AbortTimeout]

\* The exit status of a container: zero or not.
ExitStatuses == {0, 1}
NoWait == [done |-> FALSE, status |-> 0, err |-> NilErr]
Waited(status, err) == [done |-> TRUE, status |-> status, err |-> err]

\* backend.RunResult
RunResult(output, error) == [Output |-> output, Error |-> error]

\* What a driver call made with the run's context may fail with: a driver
\* error at any time, the context's own error once the context is done.
DriverErr == <<"driver error">>
CtxErrs(c) ==
    CASE c = "canceled" -> {<<ContextCanceled>>, <<"wait", ContextCanceled>>}
      [] c = "deadline" -> {<<DeadlineExceeded>>}
      [] OTHER -> {}
CallErrs(c) == {DriverErr} \cup CtxErrs(c)

\* The multiplexed log stream: frames tagged 1 (stdout) or 2 (stderr).
Frame(stream, payload) == [stream |-> stream, payload |-> payload]
LogStreams ==
    { <<>>,
      <<Frame(1, <<"o">>)>>,
      <<Frame(2, <<"e">>)>>,
      <<Frame(2, <<"e">>), Frame(1, <<"o">>), Frame(1, <<"p">>)>>,
      <<Frame(1, <<"o">>), Frame(3, <<"x">>)>> }

\* stdcopy.StdCopy(bout, berr, r)
RECURSIVE StdCopy(_)
StdCopy(r) ==
    IF r = <<>> THEN [bout |-> <<>>, berr |-> <<>>, err |-> NilErr]
    ELSE LET rest == StdCopy(Tail(r))
             f == Head(r) IN
         IF f.stream \notin {1, 2}
         THEN [bout |-> <<>>, berr |-> <<>>, err |-> <<"Unrecognized input header">>]
         ELSE IF rest.err # NilErr
         THEN rest
         ELSE IF f.stream = 1
         THEN [rest EXCEPT !.bout = f.payload \o @]
         ELSE [rest EXCEPT !.berr = f.payload \o @]

\* Variant: the two buffers appended with no separator.
ReadContainerLogsNoJoin(r) ==
    LET d == StdCopy(r) IN
    IF d.err # NilErr
    THEN [out |-> <<>>, err |-> d.err]
    ELSE [out |-> d.bout \o d.berr, err |-> NilErr]

\* Variant: the two buffers joined in the other order.
ReadContainerLogsErrFirst(r) ==
    LET d == StdCopy(r) IN
    IF d.err # NilErr
    THEN [out |-> <<>>, err |-> d.err]
    ELSE [out |-> d.berr \o <<"\n">> \o d.bout, err |-> NilErr]

\* readContainerLogs: bytes.Join({outContent, errContent}, "\n")
ReadContainerLogs(r) ==
    LET d == StdCopy(r) IN
    IF d.err # NilErr
    THEN [out |-> <<>>, err |-> d.err]
    ELSE [out |-> d.bout \o <<"\n">> \o d.berr, err |-> NilErr]

\* errors.Is(err, context.Canceled) || errors.Is(err, context.DeadlineExceeded)
IsCtxErr(err) == ErrorsIs(err, ContextCanceled) \/ ErrorsIs(err, DeadlineExceeded)

\* Variant: the remove is never registered.
DeferRemoveNever(stack) == stack

\* defer func() { ... ContainerRemove(...) }(): pushed on the deferred calls.
DeferRemove(stack) == <<"remove">> \o stack

\* Variant: cleanup done inline, possibly before the result is sent.
DeferredRunBeforeSend(pc) == pc \in {"send", "return"}

\* Deferred calls run when run returns, that is after its send completed.
DeferredRunAt(pc) == pc = "return"

Log(j, e) == bEvents' = [bEvents EXCEPT ![j] = Append(@, e)]
Goto(j, pc) == bPc' = [bPc EXCEPT ![j] = pc]
\* res <- backend.RunResult{...}; return
Fail(j, err) == bSend' = [bSend EXCEPT ![j] = RunResult(<<>>, err)]

\* Variant: the image is pulled whatever the configuration.
NeedsPullAlways(server) == TRUE

\* if b.config.Server != ""
NeedsPull(server) == server

\* Run, up to the pull loop or, with no registry configured, up to its return.
RunCall(j) ==
    /\ bPc[j] = "idle"
    /\ IF NeedsPull(registry)
       THEN /\ Goto(j, "pull")
            /\ UNCHANGED bRunRet
       ELSE /\ Goto(j, "create")
            /\ bRunRet' = [bRunRet EXCEPT ![j] = "chan"]
    /\ UNCHANGED <<registry, pullMax, bPullErr, bWait, bCtx, bPull, bContID, bErr, bLogs, bOut,
                   bSend, bChan, bDefer, bEvents, rVars, aVars, mVars>>

\* pullWithBackoff: backoff.Continue(bState) is true, then one b.cli.Pull.
PullAttempt(j) ==
    /\ bPc[j] = "pull"
    /\ PolicyNext(bPull[j], pullMax)
    /\ bPull' = [bPull EXCEPT ![j] = @ + 1]
    /\ Log(j, Event("Pull", "ctx", NoCont))
    /\ \E err \in {NilErr, DriverErr} :
        /\ bPullErr' = [bPullErr EXCEPT ![j] = err]
        /\ IF err = NilErr
           THEN /\ Goto(j, "create")
                /\ bRunRet' = [bRunRet EXCEPT ![j] = "chan"]
           ELSE /\ Goto(j, "pull")
                /\ UNCHANGED bRunRet
    /\ UNCHANGED <<registry, pullMax, bWait, bCtx, bContID, bErr, bLogs, bOut, bSend,
                   bChan, bDefer, rVars, aVars, mVars>>

\* Variant: the error of pullWithBackoff is dropped and the run is started.
PullExhaustedIgnored(j) ==
    /\ bPc[j] = "pull"
    /\ PolicyDone(bPull[j], pullMax)
    /\ Goto(j, "create")
    /\ bRunRet' = [bRunRet EXCEPT ![j] = "chan"]
    /\ UNCHANGED <<registry, pullMax, bPullErr, bWait, bCtx, bPull, bContID, bErr,
                   bLogs, bOut, bSend, bChan, bDefer, bEvents, rVars, aVars,
                   mVars>>

\* pullWithBackoff: backoff.Continue(bState) is false; Run returns nil, err.
PullExhausted(j) ==
    /\ bPc[j] = "pull"
    /\ PolicyDone(bPull[j], pullMax)
    /\ Goto(j, "norun")
    /\ bRunRet' = [bRunRet EXCEPT ![j] = "err"]
    /\ UNCHANGED <<registry, pullMax, bPullErr, bWait, bCtx, bPull, bContID, bErr, bLogs, bOut,
                   bSend, bChan, bDefer, bEvents, rVars, aVars, mVars>>

\* contID, err := b.cli.Create(ctx, cfg, params.CheckID), and the defer.
Create(j) ==
    /\ bPc[j] = "create"
    /\ Log(j, Event("Create", "ctx", NoCont))
    /\ \/ \E err \in CallErrs(bCtx[j]) :
            /\ bErr' = [bErr EXCEPT ![j] = err]
            /\ Fail(j, err)
            /\ Goto(j, "send")
            /\ UNCHANGED <<bContID, bDefer>>
       \/ /\ bErr' = [bErr EXCEPT ![j] = NilErr]
          /\ bContID' = [bContID EXCEPT ![j] = ContOf(j)]
          /\ bDefer' = [bDefer EXCEPT ![j] = DeferRemove(@)]
          /\ Goto(j, "start")
          /\ UNCHANGED bSend
    /\ UNCHANGED <<registry, pullMax, bPullErr, bWait, bCtx, bPull, bRunRet, bLogs, bOut, bChan,
                   rVars, aVars, mVars>>

\* err = b.cli.ContainerStart(ctx, contID, ...)
Start(j) ==
    /\ bPc[j] = "start"
    /\ Log(j, Event("ContainerStart", "ctx", bContID[j]))
    /\ \/ \E err \in CallErrs(bCtx[j]) :
            /\ bErr' = [bErr EXCEPT ![j] = err]
            /\ Fail(j, Wrap("error starting container for check", err))
            /\ Goto(j, "send")
       \/ /\ bErr' = [bErr EXCEPT ![j] = NilErr]
          /\ Goto(j, "wait")
          /\ UNCHANGED bSend
    /\ UNCHANGED <<registry, pullMax, bPullErr, bWait, bCtx, bPull, bRunRet, bContID, bLogs, bOut,
                   bChan, bDefer, rVars, aVars, mVars>>

\* b.cli.ContainerWait(ctx, contID) is called and blocks.
WaitCall(j) ==
    /\ bPc[j] = "wait"
    /\ Log(j, Event("ContainerWait", "ctx", bContID[j]))
    /\ Goto(j, "waiting")
    /\ UNCHANGED <<registry, pullMax, bPullErr, bWait, bCtx, bPull, bRunRet, bContID, bErr, bLogs,
                   bOut, bSend, bChan, bDefer, rVars, aVars, mVars>>

\* Variant: only context.Canceled is tested, the deadline error is not.
AfterWaitCanceledOnly(err) ==
    IF err # NilErr /\ ~ErrorsIs(err, ContextCanceled)
    THEN "send"
    ELSE IF ErrorsIs(err, ContextCanceled)
    THEN "stop"
    ELSE "logs"

\* Variant: an error of ContainerWait other than the context's is passed
\* over and the logs are collected.
AfterWaitErrorsIgnored(err) == IF IsCtxErr(err) THEN "stop" ELSE "logs"

\* Where run goes with the error ContainerWait returned.
AfterWait(err) ==
    IF err # NilErr /\ ~ErrorsIs(err, ContextCanceled) /\ ~ErrorsIs(err, DeadlineExceeded)
    THEN "send"
    ELSE IF IsCtxErr(err)
    THEN "stop"
    ELSE "logs"

\* Variant: a status other than zero is turned into an error of the run.
WaitErrNonZeroFails(status, err) ==
    IF err = NilErr /\ status # 0 THEN <<"container exited with error">> ELSE err

\* _, err = b.cli.ContainerWait(...): the status is dropped, err is kept.
WaitErr(status, err) == err

\* _, err = b.cli.ContainerWait(ctx, contID) returns: the container exited
\* with some status, the driver failed, or the context was done while the
\* call was blocked.
WaitReturn(j) ==
    /\ bPc[j] = "waiting"
    /\ \E err \in {NilErr} \cup CallErrs(bCtx[j]) :
       \E status \in (IF err = NilErr THEN ExitStatuses ELSE {0}) :
        LET e == WaitErr(status, err) IN
        /\ bWait' = [bWait EXCEPT ![j] = Waited(status, err)]
        /\ bErr' = [bErr EXCEPT ![j] = e]
        /\ Goto(j, AfterWait(e))
        /\ IF AfterWait(e) = "send"
           THEN Fail(j, Wrap("error running container for check", e))
           ELSE UNCHANGED bSend
    /\ UNCHANGED <<registry, pullMax, bPullErr, bCtx, bPull, bRunRet, bContID, bLogs, bOut,
                   bChan, bDefer, bEvents, rVars, aVars, mVars>>

\* b.cli.ContainerStop(context.Background(), contID, &timeout)
Stop(j) ==
    /\ bPc[j] = "stop"
    /\ Log(j, StopEvent(bContID[j]))
    /\ Fail(j, bErr[j])
    /\ Goto(j, "send")
    /\ UNCHANGED <<registry, pullMax, bPullErr, bWait, bCtx, bPull, bRunRet, bContID, bErr, bLogs,
                   bOut, bChan, bDefer, rVars, aVars, mVars>>

\* r, err := b.cli.ContainerLogs(ctx, contID, logOpts), and defer r.Close()
Logs(j) ==
    /\ bPc[j] = "logs"
    /\ Log(j, Event("ContainerLogs", "ctx", bContID[j]))
    /\ \/ \E err \in CallErrs(bCtx[j]) :
            /\ bErr' = [bErr EXCEPT ![j] = err]
            /\ Fail(j, Wrap("error getting logs for check", err))
            /\ Goto(j, "send")
            /\ UNCHANGED <<bLogs, bDefer>>
       \/ \E r \in LogStreams :
            /\ bErr' = [bErr EXCEPT ![j] = NilErr]
            /\ bLogs' = [bLogs EXCEPT ![j] = r]
            /\ bDefer' = [bDefer EXCEPT ![j] = <<"close">> \o @]
            /\ Goto(j, "read")
            /\ UNCHANGED bSend
    /\ UNCHANGED <<registry, pullMax, bPullErr, bWait, bCtx, bPull, bRunRet, bContID, bOut, bChan,
                   rVars, aVars, mVars>>

\* out, err := readContainerLogs(r)
Read(j) ==
    /\ bPc[j] = "read"
    /\ LET got == ReadContainerLogs(bLogs[j]) IN
        /\ bErr' = [bErr EXCEPT ![j] = got.err]
        /\ bOut' = [bOut EXCEPT ![j] = got.out]
        /\ IF got.err # NilErr
           THEN Fail(j, Wrap("error reading logs for check", got.err))
           ELSE bSend' = [bSend EXCEPT ![j] = RunResult(got.out, NilErr)]
    /\ Goto(j, "send")
    /\ UNCHANGED <<registry, pullMax, bPullErr, bWait, bCtx, bPull, bRunRet, bContID, bLogs, bChan,
                   bDefer, bEvents, rVars, aVars, mVars>>

\* res <- result: the channel is unbuffered, the send completes when the
\* caller receives; run then returns and its deferred calls run.
Send(j) ==
    /\ bPc[j] = "send"
    /\ bChan' = [bChan EXCEPT ![j] = Append(@, bSend[j])]
    /\ Log(j, Event("deliver", "none", NoCont))
    /\ Goto(j, "return")
    /\ UNCHANGED <<registry, pullMax, bPullErr, bWait, bCtx, bPull, bRunRet, bContID, bErr, bLogs,
                   bOut, bSend, bDefer, rVars, aVars, mVars>>

\* One deferred call: r.Close(), or ContainerRemove(context.Background(),
\* contID, {Force: true}).
Deferred(j) ==
    /\ DeferredRunAt(bPc[j])
    /\ bDefer[j] # <<>>
    /\ Log(j, IF Head(bDefer[j]) = "remove"
              THEN RemoveEvent(bContID[j])
              ELSE Event("Close", "none", NoCont))
    /\ bDefer' = [bDefer EXCEPT ![j] = Tail(@)]
    /\ UNCHANGED <<registry, pullMax, bPullErr, bWait, bPc, bCtx, bPull, bRunRet, bContID, bErr,
                   bLogs, bOut, bSend, bChan, rVars, aVars, mVars>>

\* The run goroutine exits.
Exit(j) ==
    /\ bPc[j] = "return"
    /\ bDefer[j] = <<>>
    /\ Goto(j, "exited")
    /\ UNCHANGED <<registry, pullMax, bPullErr, bWait, bCtx, bPull, bRunRet, bContID, bErr, bLogs,
                   bOut, bSend, bChan, bDefer, bEvents, rVars, aVars, mVars>>

\* The caller cancels the context, or its deadline expires.
CtxDone(j) ==
    /\ bCtx[j] = "active"
    /\ bPc[j] \notin {"exited", "norun"}
    /\ \E c \in {"canceled", "deadline"} : bCtx' = [bCtx EXCEPT ![j] = c]
    /\ UNCHANGED <<registry, pullMax, bPullErr, bWait, bPc, bPull, bRunRet, bContID, bErr, bLogs,
                   bOut, bSend, bChan, bDefer, bEvents, rVars, aVars, mVars>>

NextBackend ==
    \E j \in Jobs :
        \/ RunCall(j) \/ PullAttempt(j) \/ PullExhausted(j)
        \/ Create(j) \/ Start(j) \/ WaitCall(j) \/ WaitReturn(j) \/ Stop(j)
        \/ Logs(j) \/ Read(j) \/ Send(j) \/ Deferred(j) \/ Exit(j)
        \/ CtxDone(j)

----------------------------------------------------------------------------
(* Aborted-Job Cache: Checks.IsAborted, Checks.get *)

Procs == {"p1", "p2"}

\* Check identifiers; the empty string is what ids is seeded with before
\* decoding.
EmptyID == ""
CheckIDs == {"a", "b"}
QueryIDs == CheckIDs \cup {EmptyID}

\* Bodies of 200 responses that decode as a JSON array of strings.
Snapshots == {<<>>, <<"a">>, <<"a", "b">>}

\* What ids holds after a failed Decode into ids = []string{""}: untouched
\* on a syntax error, partly filled on a type error such as ["a", 1].
BadDecodes == {<<EmptyID>>, <<"a", EmptyID>>}

ErrTransport == <<"transport error">>

\* Variant: the status error built without wrapping ErrPermanent.
ErrStatusPlain ==
    <<"error getting curent aborted checks, unexpected status code">>

ErrStatus ==
    Wrap("error getting curent aborted checks, unexpected status code",
         <<ErrPermanent>>)
ErrDecode == Wrap("error reading current aborted checks", <<ErrPermanent>>)

\* One run of the closure get hands to WithRetries: how the request was
\* answered (no response, a status other than 200, a 200 whose body does not
\* decode, a 200 with a list), the error the closure returns and the value
\* it leaves in the captured ids.
ClosureRuns(ids) ==
    {[resp |-> "transport", err |-> ErrTransport, ids |-> ids],
     [resp |-> "status", err |-> ErrStatus, ids |-> ids]}
    \cup {[resp |-> "decode", err |-> ErrDecode, ids |-> d] : d \in BadDecodes}
    \cup {[resp |-> "ok", err |-> NilErr, ids |-> s] : s \in Snapshots}

ToSet(ids) == {ids[i] : i \in 1..Len(ids)}

\* _, ok := c.canceled[ID], under the read lock
CacheHit(ID, set) == ID \in set

\* Variant: the new identifiers merged into the old set.
InstallMerged(old, ids) == old \cup ToSet(ids)

\* c.canceled = make(map); for _, id := range ids { c.canceled[id] = struct{}{} }
InstallSnapshot(old, ids) == ToSet(ids)

\* The err get returns: declared in get, never assigned (the closure declares
\* its own err and the result of WithRetries is dropped).
GetErr(st) == NilErr

NoFetch == [made |-> FALSE, err |-> NilErr]
NoRet == [returned |-> FALSE, ok |-> FALSE, err |-> NilErr]
Ret(ok, err) == [returned |-> TRUE, ok |-> ok, err |-> err]

\* IsAborted up to the first lookup; on a miss, get starts WithRetries.
IsAbortedCall(p) ==
    /\ aPc[p] = "idle"
    /\ \E ID \in QueryIDs :
        /\ aID' = [aID EXCEPT ![p] = ID]
        /\ IF CacheHit(ID, canceled)
           THEN /\ aRet' = [aRet EXCEPT ![p] = Ret(TRUE, NilErr)]
                /\ aPc' = [aPc EXCEPT ![p] = "done"]
                /\ UNCHANGED aSt
           ELSE /\ aRet' = [aRet EXCEPT ![p] = NoRet]
                /\ aPc' = [aPc EXCEPT ![p] = "get"]
                /\ aSt' = [aSt EXCEPT ![p] = RetryBegin]
    /\ aIds' = [aIds EXCEPT ![p] = <<>>]
    /\ aGetErr' = [aGetErr EXCEPT ![p] = NilErr]
    /\ aReqs' = [aReqs EXCEPT ![p] = 0]
    /\ aHist' = [aHist EXCEPT ![p] = <<>>]
    /\ aFetch' = [aFetch EXCEPT ![p] = NoFetch]
    /\ UNCHANGED <<canceled, aPrev, aGood, aCfg, bVars, rVars, mVars>>

\* One exec() of WithRetries: c.client.Get(c.addr) and the decoding.
GetExec(p) ==
    /\ aPc[p] = "get"
    /\ aSt[p].pc = "exec"
    /\ \E run \in ClosureRuns(aIds[p]) :
        /\ aIds' = [aIds EXCEPT ![p] = run.ids]
        /\ aSt' = [aSt EXCEPT ![p] = AfterExec(@, run.err, aCfg.retries)]
        /\ aHist' = [aHist EXCEPT ![p] = Append(@, run.resp)]
    /\ aReqs' = [aReqs EXCEPT ![p] = @ + 1]
    /\ UNCHANGED <<canceled, aPrev, aGood, aCfg, aPc, aID, aGetErr, aRet,
                   aFetch, bVars, rVars, mVars>>

GetNext(p) ==
    /\ aPc[p] = "get"
    /\ aSt[p].pc = "select"
    /\ PolicyNext(aSt[p].nexts, aCfg.policyMax)
    /\ aSt' = [aSt EXCEPT ![p] = AfterNext(@)]
    /\ UNCHANGED <<canceled, aPrev, aGood, aCfg, aPc, aID, aIds, aGetErr, aRet,
                   aReqs, aHist, aFetch, bVars, rVars, mVars>>

GetDone(p) ==
    /\ aPc[p] = "get"
    /\ aSt[p].pc = "select"
    /\ PolicyDone(aSt[p].nexts, aCfg.policyMax)
    /\ aSt' = [aSt EXCEPT ![p] = AfterDone(@)]
    /\ UNCHANGED <<canceled, aPrev, aGood, aCfg, aPc, aID, aIds, aGetErr, aRet,
                   aReqs, aHist, aFetch, bVars, rVars, mVars>>

\* WithRetries has returned: get returns ids, err; IsAborted returns the
\* error or replaces c.canceled under the write lock.
Install(p) ==
    /\ aPc[p] = "get"
    /\ aSt[p].pc = "returned"
    /\ aFetch' = [aFetch EXCEPT ![p] = [made |-> TRUE, err |-> aSt[p].ret]]
    /\ aGetErr' = [aGetErr EXCEPT ![p] = GetErr(aSt[p])]
    /\ IF GetErr(aSt[p]) # NilErr
       THEN /\ aRet' = [aRet EXCEPT ![p] = Ret(FALSE, GetErr(aSt[p]))]
            /\ aPc' = [aPc EXCEPT ![p] = "done"]
            /\ UNCHANGED <<canceled, aPrev, aGood>>
       ELSE /\ canceled' = InstallSnapshot(canceled, aIds[p])
            /\ aPrev' = canceled
            /\ aGood' = IF aSt[p].ret = NilErr THEN ToSet(aIds[p]) ELSE aGood
            /\ aPc' = [aPc EXCEPT ![p] = "recheck"]
            /\ UNCHANGED aRet
    /\ aSt' = [aSt EXCEPT ![p] = NoCall]
    /\ UNCHANGED <<aCfg, aID, aIds, aReqs, aHist, bVars, rVars, mVars>>

\* The second lookup, under the read lock; IsAborted returns ok, nil.
Recheck(p) ==
    /\ aPc[p] = "recheck"
    /\ aRet' = [aRet EXCEPT ![p] = Ret(CacheHit(aID[p], canceled), NilErr)]
    /\ aPc' = [aPc EXCEPT ![p] = "done"]
    /\ UNCHANGED <<canceled, aPrev, aGood, aCfg, aID, aIds, aSt, aGetErr, aReqs,
                   aHist, aFetch, bVars, rVars, mVars>>

\* The caller takes the result; the goroutine may call IsAborted again.
Returned(p) ==
    /\ aPc[p] = "done"
    /\ aPc' = [aPc EXCEPT ![p] = "idle"]
    /\ aID' = [aID EXCEPT ![p] = EmptyID]
    /\ aIds' = [aIds EXCEPT ![p] = <<>>]
    /\ aSt' = [aSt EXCEPT ![p] = NoCall]
    /\ aGetErr' = [aGetErr EXCEPT ![p] = NilErr]
    /\ aRet' = [aRet EXCEPT ![p] = NoRet]
    /\ aReqs' = [aReqs EXCEPT ![p] = 0]
    /\ aHist' = [aHist EXCEPT ![p] = <<>>]
    /\ aFetch' = [aFetch EXCEPT ![p] = NoFetch]
    /\ UNCHANGED <<canceled, aPrev, aGood, aCfg, bVars, rVars, mVars>>

IsAbortedStep(p) ==
    \/ IsAbortedCall(p) \/ GetExec(p) \/ GetNext(p) \/ GetDone(p)
    \/ Install(p) \/ Recheck(p) \/ Returned(p)

\* Any number of goroutines call IsAborted.
NextAborted == \E p \in Procs : IsAbortedStep(p)

\* A single caller, no concurrent refresh.
NextAbortedSeq == IsAbortedStep("p1")

----------------------------------------------------------------------------
(* Shutdown Coordinator: MainWithExitCode, from the select on the triggers *)

ErrServerClosed == "http: Server closed"
\* What ListenAndServe returns when the listener cannot be set up or fails.
ErrListen == <<"listen error">>
ErrShutdown == <<"shutdown error">>
ErrTracker == <<"tracker error">>
ErrReader == <<"reader error">>

\* signal.Notify delivers without blocking: a signal that finds the channel
\* full is dropped.
Notify(n) == IF n < 1 THEN n + 1 ELSE n

\* Variant: the signal case of the select is always ready.
SigReceivableAlways(n) == TRUE

\* case <-sig
SigReceivable(n) == n > 0

\* if err != nil && !errors.Is(err, benign) { l.Errorf(msg, err) }
LogUnless(log, err, benign, msg) ==
    IF err # NilErr /\ ~ErrorsIs(err, benign) THEN Append(log, msg) ELSE log

\* Variant: the error of the serve goroutine is never fatal.
ServeErrFatalNever(err) == FALSE

\* err != nil && !errors.Is(err, http.ErrServerClosed)
ServeErrFatal(err) == err # NilErr /\ ~ErrorsIs(err, ErrServerClosed)

\* Variant: srv.Shutdown follows the receive on stopperDone.
DrainNextSkipsReader(pc) ==
    CASE pc = "select" -> "stopperDone"
      [] pc = "stopperDone" -> "shutdown"
      [] pc = "qrdone" -> "shutdown"
      [] pc = "shutdown" -> "httpDone"
      [] pc = "httpDone" -> "exit"

\* The statements of the drain, in program order.
DrainNext(pc) ==
    CASE pc = "select" -> "stopperDone"
      [] pc = "stopperDone" -> "qrdone"
      [] pc = "qrdone" -> "shutdown"
      [] pc = "shutdown" -> "httpDone"
      [] pc = "httpDone" -> "exit"

\* The value a receive takes from a channel whose sender is at pc: the value
\* offered, or the zero value of a closed channel.
Received(pc, err) == IF pc = "send" THEN err ELSE NilErr
CanReceive(pc) == pc \in {"send", "closed"}

\* The sender once its value is taken: the goroutine of httpDone closes the
\* channel; whether Track does is not fixed by cmd.go.
AfterSend(pc, closes) ==
    IF pc = "send" THEN (IF closes THEN "closed" ELSE "ended") ELSE pc

\* SIGINT or SIGTERM reaches the process.
SignalArrives ==
    /\ mPc # "exit"
    /\ sig' = Notify(sig)
    /\ fired' = fired \cup {"signal"}
    /\ UNCHANGED <<mPc, ctxqr, cancelqrCalls, mErr, mLog, mSteps, mExit,
                   tCloses, tPc, tErr, qPc, qErr, srvShutdown, hPc, hErr,
                   bVars, rVars, aVars>>

\* The tracker finds that no message was read for MaxTime and reports.
TrackerIdle ==
    /\ tPc = "tracking"
    /\ mPc # "exit"
    /\ \E err \in {NilErr, ErrTracker} : tErr' = err
    /\ tPc' = "send"
    /\ fired' = fired \cup {"idle"}
    /\ UNCHANGED <<mPc, sig, ctxqr, cancelqrCalls, mErr, mLog, mSteps, mExit,
                   tCloses, qPc, qErr, srvShutdown, hPc, hErr,
                   bVars, rVars, aVars>>

\* The tracker sees ctxqr cancelled and reports.
TrackerCancelled ==
    /\ tPc = "tracking"
    /\ ctxqr = "canceled"
    /\ \E err \in {<<ContextCanceled>>, ErrTracker} : tErr' = err
    /\ tPc' = "send"
    /\ UNCHANGED <<mPc, sig, fired, ctxqr, cancelqrCalls, mErr, mLog, mSteps,
                   mExit, tCloses, qPc, qErr, srvShutdown, hPc, hErr,
                   bVars, rVars, aVars>>

\* The read loop sees ctxqr cancelled, finishes its jobs and reports.
ReaderStops ==
    /\ qPc = "reading"
    /\ ctxqr = "canceled"
    /\ \E err \in {NilErr, <<ContextCanceled>>, ErrReader} : qErr' = err
    /\ qPc' = "send"
    /\ UNCHANGED <<mPc, sig, fired, ctxqr, cancelqrCalls, mErr, mLog, mSteps,
                   mExit, tCloses, tPc, tErr, srvShutdown, hPc, hErr,
                   bVars, rVars, aVars>>

\* err := srv.ListenAndServe(): ErrServerClosed once Shutdown was called,
\* the listener's error otherwise.
ServeReturns ==
    /\ hPc = "serving"
    /\ mPc # "exit"
    /\ hErr' = IF srvShutdown THEN <<ErrServerClosed>> ELSE ErrListen
    /\ hPc' = "send"
    /\ UNCHANGED <<mPc, sig, fired, ctxqr, cancelqrCalls, mErr, mLog, mSteps,
                   mExit, tCloses, tPc, tErr, qPc, qErr, srvShutdown,
                   bVars, rVars, aVars>>

\* select: case <-sig: cancelqr()
SelectSignal ==
    /\ mPc = "select"
    /\ SigReceivable(sig)
    /\ sig' = sig - 1
    /\ ctxqr' = "canceled"
    /\ cancelqrCalls' = cancelqrCalls + 1
    /\ mSteps' = Append(mSteps, "cancelqr")
    /\ mPc' = DrainNext(mPc)
    /\ UNCHANGED <<fired, mErr, mLog, mExit, tCloses, tPc, tErr, qPc, qErr,
                   srvShutdown, hPc, hErr, bVars, rVars, aVars>>

\* select: case err = <-stopperDone: l.Infof(...); cancelqr()
SelectStopper ==
    /\ mPc = "select"
    /\ CanReceive(tPc)
    /\ mErr' = Received(tPc, tErr)
    /\ tPc' = AfterSend(tPc, tCloses)
    /\ ctxqr' = "canceled"
    /\ cancelqrCalls' = cancelqrCalls + 1
    /\ mSteps' = Append(mSteps, "cancelqr")
    /\ mPc' = DrainNext(mPc)
    /\ UNCHANGED <<sig, fired, mLog, mExit, tCloses, tErr, qPc, qErr,
                   srvShutdown, hPc, hErr, bVars, rVars, aVars>>

\* err = <-stopperDone, logged unless nil or context.Canceled
RecvStopper ==
    /\ mPc = "stopperDone"
    /\ CanReceive(tPc)
    /\ mErr' = Received(tPc, tErr)
    /\ tPc' = AfterSend(tPc, tCloses)
    /\ mLog' = LogUnless(mLog, Received(tPc, tErr), ContextCanceled,
                         "error stopping the reader tracker")
    /\ mSteps' = Append(mSteps, "stopperDone")
    /\ mPc' = DrainNext(mPc)
    /\ UNCHANGED <<sig, fired, ctxqr, cancelqrCalls, mExit, tCloses, tErr,
                   qPc, qErr, srvShutdown, hPc, hErr, bVars, rVars, aVars>>

\* err = <-qrdone, logged unless nil or context.Canceled
RecvReader ==
    /\ mPc = "qrdone"
    /\ CanReceive(qPc)
    /\ mErr' = Received(qPc, qErr)
    /\ qPc' = AfterSend(qPc, TRUE)
    /\ mLog' = LogUnless(mLog, Received(qPc, qErr), ContextCanceled,
                         "error stopping agent")
    /\ mSteps' = Append(mSteps, "qrdone")
    /\ mPc' = DrainNext(mPc)
    /\ UNCHANGED <<sig, fired, ctxqr, cancelqrCalls, mExit, tCloses, tPc, tErr,
                   qErr, srvShutdown, hPc, hErr, bVars, rVars, aVars>>

\* err = srv.Shutdown(context.Background()); on an error, log and return 1
Shutdown ==
    /\ mPc = "shutdown"
    /\ srvShutdown' = TRUE
    /\ mSteps' = Append(mSteps, "Shutdown")
    /\ \E err \in {NilErr, ErrShutdown} :
        /\ mErr' = err
        /\ IF err # NilErr
           THEN /\ mLog' = Append(mLog, "error stoping http server")
                /\ mExit' = <<1>>
                /\ mPc' = "exit"
           ELSE /\ mPc' = DrainNext(mPc)
                /\ UNCHANGED <<mLog, mExit>>
    /\ UNCHANGED <<sig, fired, ctxqr, cancelqrCalls, tCloses, tPc, tErr, qPc,
                   qErr, hPc, hErr, bVars, rVars, aVars>>

\* err = <-httpDone; an error other than ErrServerClosed is logged and
\* returns 1; return 0 otherwise
RecvHTTP ==
    /\ mPc = "httpDone"
    /\ CanReceive(hPc)
    /\ mErr' = Received(hPc, hErr)
    /\ hPc' = AfterSend(hPc, TRUE)
    /\ mSteps' = Append(mSteps, "httpDone")
    /\ IF ServeErrFatal(Received(hPc, hErr))
       THEN /\ mLog' = Append(mLog, "http server stopped with error")
            /\ mExit' = <<1>>
       ELSE /\ mExit' = <<0>>
            /\ UNCHANGED mLog
    /\ mPc' = DrainNext(mPc)
    /\ UNCHANGED <<sig, fired, ctxqr, cancelqrCalls, tCloses, tPc, tErr, qPc,
                   qErr, srvShutdown, hErr, bVars, rVars, aVars>>

NextCoordinator ==
    \/ SignalArrives \/ TrackerIdle \/ TrackerCancelled \/ ReaderStops
    \/ ServeReturns \/ SelectSignal \/ SelectStopper \/ RecvStopper
    \/ RecvReader \/ Shutdown \/ RecvHTTP

----------------------------------------------------------------------------
(* Initial states and specifications *)

\* MainWithExitCode has started the server, the reader and the tracker and
\* stands at the select; no signal has arrived.
CoordinatorStarted ==
    /\ mPc = "select"
    /\ sig = 0
    /\ fired = {}
    /\ ctxqr = "active"
    /\ cancelqrCalls = 0
    /\ mErr = NilErr
    /\ mLog = <<>>
    /\ mSteps = <<>>
    /\ mExit = <<>>
    /\ tPc = "tracking"
    /\ tErr = NilErr
    /\ qPc = "reading"
    /\ qErr = NilErr
    /\ srvShutdown = FALSE
    /\ hPc = "serving"
    /\ hErr = NilErr

CoordinatorIdle ==
    /\ tCloses = TRUE
    /\ CoordinatorStarted

BackendJobsIdle ==
    /\ bPc = [j \in Jobs |-> "idle"]
    /\ bCtx = [j \in Jobs |-> "active"]
    /\ bPull = [j \in Jobs |-> 0]
    /\ bPullErr = [j \in Jobs |-> NilErr]
    /\ bWait = [j \in Jobs |-> NoWait]
    /\ bRunRet = [j \in Jobs |-> "none"]
    /\ bContID = [j \in Jobs |-> NoCont]
    /\ bErr = [j \in Jobs |-> NilErr]
    /\ bLogs = [j \in Jobs |-> <<>>]
    /\ bOut = [j \in Jobs |-> <<>>]
    /\ bSend = [j \in Jobs |-> RunResult(<<>>, NilErr)]
    /\ bChan = [j \in Jobs |-> <<>>]
    /\ bDefer = [j \in Jobs |-> <<>>]
    /\ bEvents = [j \in Jobs |-> <<>>]

BackendIdle ==
    /\ registry = FALSE
    /\ pullMax = 0
    /\ BackendJobsIdle

RetryerIdle ==
    /\ rCfg = NewRetryer(0)
    /\ rSt = NoCall
    /\ rHist = <<>>

AbortedCallsIdle ==
    /\ canceled = {}
    /\ aPrev = {}
    /\ aGood = {}
    /\ aPc = [p \in Procs |-> "idle"]
    /\ aID = [p \in Procs |-> EmptyID]
    /\ aIds = [p \in Procs |-> <<>>]
    /\ aSt = [p \in Procs |-> NoCall]
    /\ aGetErr = [p \in Procs |-> NilErr]
    /\ aRet = [p \in Procs |-> NoRet]
    /\ aReqs = [p \in Procs |-> 0]
    /\ aHist = [p \in Procs |-> <<>>]
    /\ aFetch = [p \in Procs |-> NoFetch]

AbortedIdle ==
    /\ aCfg = NewRetryer(0)
    /\ AbortedCallsIdle

\* docker.New: a Backend with or without a private registry.  The retries
\* of the pull policy are read by pullWithBackoff only, so they are varied
\* only when a registry is configured.
InitBackend ==
    /\ registry \in BOOLEAN
    /\ pullMax \in (IF registry THEN 0..MaxPullRetries ELSE {0})
    /\ BackendJobsIdle
    /\ RetryerIdle
    /\ AbortedIdle
    /\ CoordinatorIdle

\* A Retryer built by NewRetryer or by hand, as the tests do.
InitRetryer ==
    /\ rCfg \in Retryers
    /\ rSt = NoCall
    /\ rHist = <<>>
    /\ BackendIdle
    /\ AbortedIdle
    /\ CoordinatorIdle

\* aborted.New: an empty cache and the Retryer it is given.
InitAborted ==
    /\ aCfg \in AbortedRetryers
    /\ AbortedCallsIdle
    /\ BackendIdle
    /\ RetryerIdle
    /\ CoordinatorIdle

\* The goroutines of cmd.go are running; Track's channel is closed after
\* its value or left open.
InitCoordinator ==
    /\ tCloses \in BOOLEAN
    /\ CoordinatorStarted
    /\ BackendIdle
    /\ RetryerIdle
    /\ AbortedIdle

SpecBackend == InitBackend /\ [][NextBackend]_vars
SpecRetryer == InitRetryer /\ [][NextRetryer]_vars
SpecAborted == InitAborted /\ [][NextAborted]_vars
SpecAbortedSeq == InitAborted /\ [][NextAbortedSeq]_vars
SpecCoordinator == InitCoordinator /\ [][NextCoordinator]_vars

\* Variant: Track leaves its channel open after its only value.
TrackLeavesOpen == FALSE

\* Track as the drain expects it: the tracker's goroutine still acknowledges
\* on its channel after the value that raised the trigger was taken, which
\* is modelled as the channel being closed after its value.
TrackCloses == TRUE

InitCoordinatorLive ==
    /\ tCloses = TrackCloses
    /\ CoordinatorStarted
    /\ BackendIdle
    /\ RetryerIdle
    /\ AbortedIdle

\* MainWithExitCode runs whenever it can; the tracker and the read loop
\* react to the cancellation of ctxqr, and ListenAndServe returns once the
\* listener fails or Shutdown was called.  Signals and the idle timeout are
\* not bound to happen.
FairCoordinator ==
    /\ WF_vars(SelectSignal) /\ WF_vars(SelectStopper)
    /\ WF_vars(RecvStopper) /\ WF_vars(RecvReader)
    /\ WF_vars(Shutdown) /\ WF_vars(RecvHTTP)
    /\ WF_vars(TrackerCancelled) /\ WF_vars(ReaderStops)
    /\ WF_vars(ServeReturns)

SpecCoordinatorLive ==
    InitCoordinatorLive /\ [][NextCoordinator]_vars /\ FairCoordinator

----------------------------------------------------------------------------
(* Execution Backend: properties *)

Ops(j, op) == {i \in 1..Len(bEvents[j]) : bEvents[j][i].op = op}
Issued(j, op) == Ops(j, op) # {}
Created(j) == bContID[j] # NoCont
\* ContainerWait returned the context's error: the only state of run in
\* which err matches a context error after a Wait and before any log request.
WaitCancelled(j) ==
    /\ Issued(j, "ContainerWait")
    /\ ~Issued(j, "ContainerLogs")
    /\ IsCtxErr(bErr[j])

\* C1: a run whose Create succeeded has issued exactly one forced remove of
\* its container when the run routine exits, whichever step ended it, and
\* never more than one; a run whose Create failed issues no remove and no
\* stop.
C1_RemoveExactlyOnce ==
    \A j \in Jobs :
        /\ Cardinality(Ops(j, "ContainerRemove")) <= 1
        /\ \A i \in Ops(j, "ContainerRemove") : bEvents[j][i] = RemoveEvent(ContOf(j))
        /\ (bPc[j] = "exited" /\ Created(j)) => Cardinality(Ops(j, "ContainerRemove")) = 1
        /\ ~Created(j) => (~Issued(j, "ContainerRemove") /\ ~Issued(j, "ContainerStop"))

\* A run that was cancelled in Wait has exited with its container removed,
\* while another run failed at Create and exited.
C1_Witness ==
    \E j, k \in Jobs :
        /\ bPc[j] = "exited" /\ Created(j) /\ Issued(j, "ContainerStop")
        /\ Issued(j, "ContainerRemove")
        /\ bPc[k] = "exited" /\ ~Created(k) /\ Issued(k, "Create")

\* C2: every run delivers exactly one RunResult on its channel (none before
\* the send, one from then on, one when the routine has exited), and in it
\* exactly one of Output and Error is populated: Error when the run's err is
\* set, Output, the logs read, when it is not.
C2_ExactlyOneResult ==
    \A j \in Jobs :
        /\ Len(bChan[j]) <= 1
        /\ bPc[j] \in {"return", "exited"} <=> Len(bChan[j]) = 1
        /\ \A i \in 1..Len(bChan[j]) :
            LET r == bChan[j][i] IN
            /\ (r.Output # <<>>) # (r.Error # NilErr)
            /\ (r.Error # NilErr) <=> (bErr[j] # NilErr)
            /\ r.Error = NilErr => r.Output = bOut[j]

\* One run has delivered an output and exited, another an error.
C2_Witness ==
    \E j, k \in Jobs :
        /\ bPc[j] = "exited" /\ Len(bChan[j]) = 1 /\ bChan[j][1].Output # <<>>
        /\ bPc[k] = "exited" /\ Len(bChan[k]) = 1 /\ bChan[k][1].Error # NilErr

\* C3 as stated: no caller has received the result of a run whose Create
\* succeeded while that run's container is still un-removed.
C3_RemovedBeforeResult ==
    \A j \in Jobs :
        (Created(j) /\ Len(bChan[j]) > 0) => Issued(j, "ContainerRemove")

\* C3, amended: the remove request of a run whose Create succeeded is issued
\* after the result was delivered on the result channel, and before the run
\* routine exits.
C3_RemovedAfterResult ==
    \A j \in Jobs :
        /\ \A i \in Ops(j, "ContainerRemove") : \E d \in Ops(j, "deliver") : d < i
        /\ (bPc[j] = "exited" /\ Created(j)) => Issued(j, "ContainerRemove")

\* The caller holds the result of a run that failed at Start; the container
\* has since been removed.
C3_Witness ==
    \E j \in Jobs :
        /\ Created(j) /\ ~Issued(j, "ContainerWait")
        /\ Len(bChan[j]) = 1 /\ Issued(j, "ContainerRemove")

\* C4: when ContainerWait returns the context's cancellation or deadline
\* error, the run issues exactly one stop request, with a background context
\* and the abort timeout, before it sends; the result it delivers is that
\* error, unwrapped; it never requests the logs; and a stop request is
\* issued on no other path.
C4_StopOnCancelOnly ==
    \A j \in Jobs :
        /\ \A i \in Ops(j, "ContainerStop") : bEvents[j][i] = StopEvent(ContOf(j))
        /\ Issued(j, "ContainerStop") => WaitCancelled(j)
        /\ (WaitCancelled(j) /\ bPc[j] \in {"send", "return", "exited"}) =>
              /\ Cardinality(Ops(j, "ContainerStop")) = 1
              /\ bSend[j] = RunResult(<<>>, bErr[j])
              /\ \A i \in 1..Len(bChan[j]) : bChan[j][i] = RunResult(<<>>, bErr[j])
              /\ \A d \in Ops(j, "deliver") : \E i \in Ops(j, "ContainerStop") : i < d

\* A run whose deadline expired in Wait has stopped its container, delivered
\* the deadline error and exited.
C4_Witness ==
    \E j \in Jobs :
        /\ bPc[j] = "exited" /\ Issued(j, "ContainerStop")
        /\ bChan[j] = <<RunResult(<<>>, <<DeadlineExceeded>>)>>

\* C17: Pull is requested only when a registry is configured, at most once
\* per signal of the backoff policy and before any other step of the job; a
\* Pull that succeeds is the last one and the run goes on, and only after
\* such a Pull when a registry is configured; when the policy is used up
\* with every Pull failed, Run returns an error: Create is not requested,
\* no container exists and nothing is left to clean up.
C17_PullOnlyWithRegistry ==
    \A j \in Jobs :
        /\ Issued(j, "Pull") => registry
        /\ Cardinality(Ops(j, "Pull")) = bPull[j]
        /\ bPull[j] <= pullMax + 1
        /\ \A i \in Ops(j, "Pull") : \A k \in 1..Len(bEvents[j]) :
              bEvents[j][k].op # "Pull" => i < k
        /\ (Issued(j, "Pull") /\ bPullErr[j] = NilErr) =>
              bPc[j] \notin {"pull", "norun"} /\ bRunRet[j] = "chan"
        /\ (registry /\ bPc[j] \notin {"idle", "pull", "norun"}) =>
              Issued(j, "Pull") /\ bPullErr[j] = NilErr
        /\ bPc[j] = "norun" =>
              /\ registry
              /\ bPullErr[j] # NilErr
              /\ PolicyDone(bPull[j], pullMax)
              /\ bRunRet[j] = "err"
              /\ ~Issued(j, "Create") /\ ~Created(j)
              /\ bDefer[j] = <<>>
              /\ \A k \in 1..Len(bEvents[j]) : bEvents[j][k].op = "Pull"

\* With one retry allowed, a job whose second Pull succeeded has run to its
\* end, and a job whose two Pulls failed was not run.
C17_Witness ==
    \E j, k \in Jobs :
        /\ registry /\ pullMax = 1
        /\ bPc[j] = "exited" /\ bPull[j] = 2 /\ bPullErr[j] = NilErr
        /\ bPc[k] = "norun" /\ bPull[k] = 2 /\ bRunRet[k] = "err"

\* C18 as stated: no driver operation of a job is requested before Run has
\* returned the channel, and every job that has ended, a failed pull
\* included, has delivered one value on it.
C18_RunNeverWaits ==
    \A j \in Jobs :
        /\ bEvents[j] # <<>> => bRunRet[j] = "chan"
        /\ bPc[j] \in {"exited", "norun"} => Len(bChan[j]) = 1

\* C18, amended: Run returns the channel without waiting for Create, Start,
\* Wait or the logs, but with a registry configured it first pulls the image
\* and returns only when the pull has ended; a failed pull is returned as
\* Run's error, with no channel and no value delivered; every run started
\* delivers its outcome as the single value on the channel.
C18_RunWaitsOnlyForPull ==
    \A j \in Jobs :
        /\ (\E i \in 1..Len(bEvents[j]) : bEvents[j][i].op # "Pull") =>
              bRunRet[j] = "chan"
        /\ bRunRet[j] = "none" => bPc[j] \in {"idle", "pull"}
        /\ bRunRet[j] = "err" =>
              /\ registry /\ bPullErr[j] # NilErr
              /\ bPc[j] = "norun"
              /\ bChan[j] = <<>> /\ ~Issued(j, "deliver")
        /\ bRunRet[j] = "chan" =>
              /\ registry => Issued(j, "Pull") /\ bPullErr[j] = NilErr
              /\ bPc[j] = "exited" => Len(bChan[j]) = 1

\* Run has returned an error for a job whose pulls failed, and nothing was
\* delivered; for another job the pull has ended and Run has returned the
\* channel while Create is still to be requested.
C18_Witness ==
    \E j, k \in Jobs :
        /\ bRunRet[j] = "err" /\ bPc[j] = "norun" /\ bChan[j] = <<>>
        /\ bRunRet[k] = "chan" /\ bPc[k] = "create" /\ Issued(k, "Pull")

\* The bytes a log stream carries for one of its two streams, in order.
RECURSIVE Payloads(_, _)
Payloads(r, stream) ==
    IF r = <<>> THEN <<>>
    ELSE (IF Head(r).stream = stream THEN Head(r).payload ELSE <<>>)
         \o Payloads(Tail(r), stream)
WellFormed(r) == \A i \in 1..Len(r) : r[i].stream \in {1, 2}
\* ContainerLogs returned a stream: its Close was deferred, or has run.
FetchedLogs(j) ==
    \/ \E i \in 1..Len(bDefer[j]) : bDefer[j][i] = "close"
    \/ Issued(j, "Close")

\* C19: the result delivered by a run that requested the logs is, when the
\* stream was fetched and demultiplexes, an Output made of the stdout bytes,
\* one newline and the stderr bytes, empty streams included, with no Error;
\* and when the fetch or the demultiplexing failed, an Error with no Output.
C19_OutputIsStdoutNewlineStderr ==
    \A j \in Jobs : \A i \in 1..Len(bChan[j]) :
        Issued(j, "ContainerLogs") =>
            IF FetchedLogs(j) /\ WellFormed(bLogs[j])
            THEN /\ bChan[j][i].Error = NilErr
                 /\ bChan[j][i].Output =
                        Payloads(bLogs[j], 1) \o <<"\n">> \o Payloads(bLogs[j], 2)
            ELSE /\ bChan[j][i].Error # NilErr
                 /\ bChan[j][i].Output = <<>>

\* One run delivered the output of a container that wrote to both streams,
\* another that of a container that wrote nothing.
C19_Witness ==
    \E j, k \in Jobs :
        /\ Len(bChan[j]) = 1 /\ bChan[j][1].Output = <<"o", "p", "\n", "e">>
        /\ Len(bChan[k]) = 1 /\ bChan[k][1].Output = <<"\n">>
        /\ bLogs[k] = <<>> /\ FetchedLogs(k)

Before(j, a, b) == \E x \in Ops(j, a) : \A y \in Ops(j, b) : x < y
\* The step a failed run stopped at, as the text of the Error it sends.
FailedAt(j, text) == bSend[j].Error # NilErr /\ Head(bSend[j].Error) = text

\* C20: within one run each step is requested at most once; ContainerStart
\* only after Create returned a container, ContainerWait only after
\* ContainerStart returned no error, ContainerLogs only after ContainerWait
\* returned no error, and a result with no Error is delivered only after the
\* logs were fetched and read; after a step failed, none of the later steps
\* is requested.
C20_StepsInOrder ==
    \A j \in Jobs :
        /\ \A op \in {"Create", "ContainerStart", "ContainerWait",
                      "ContainerLogs", "deliver"} :
              Cardinality(Ops(j, op)) <= 1
        /\ Issued(j, "ContainerStart") =>
              Created(j) /\ Before(j, "Create", "ContainerStart")
        /\ Issued(j, "ContainerWait") =>
              /\ Before(j, "ContainerStart", "ContainerWait")
              /\ ~FailedAt(j, "error starting container for check")
              /\ ~bWait[j].done => bErr[j] = NilErr
        /\ bWait[j].done => Issued(j, "ContainerWait")
        /\ Issued(j, "ContainerLogs") =>
              /\ Before(j, "ContainerWait", "ContainerLogs")
              /\ bWait[j].done /\ bWait[j].err = NilErr
        /\ \A i \in 1..Len(bChan[j]) : bChan[j][i].Error = NilErr =>
              /\ Before(j, "ContainerLogs", "deliver")
              /\ FetchedLogs(j)
              /\ bChan[j][i].Output = bOut[j]
        /\ (Issued(j, "Create") /\ ~Created(j)) =>
              \A op \in {"ContainerStart", "ContainerWait", "ContainerLogs"} :
                  ~Issued(j, op)
        /\ FailedAt(j, "error starting container for check") =>
              ~Issued(j, "ContainerWait") /\ ~Issued(j, "ContainerLogs")
        /\ (bWait[j].done /\ bWait[j].err # NilErr) =>
              ~Issued(j, "ContainerLogs")
        /\ FailedAt(j, "error getting logs for check") =>
              ~FetchedLogs(j) /\ bOut[j] = <<>>

\* One run went through every step and delivered its output; another
\* stopped at ContainerWait, which returned a driver error.
C20_Witness ==
    \E j, k \in Jobs :
        /\ bPc[j] = "exited" /\ bChan[j][1].Error = NilErr
        /\ bWait[j] = Waited(1, NilErr)
        /\ bPc[k] = "exited" /\ bWait[k] = Waited(0, DriverErr)
        /\ bChan[k][1].Error = Wrap("error running container for check", DriverErr)

\* C23: whenever ContainerWait returned no error, whatever the exit status,
\* the run goes on to request the logs, with no stop and no Error result
\* for the wait; and when the logs are fetched and demultiplex, the result
\* it delivers carries an Output and no Error.
C23_ExitStatusIgnored ==
    \A j \in Jobs :
        (bWait[j].done /\ bWait[j].err = NilErr) =>
            /\ bPc[j] \in {"logs", "read", "send", "return", "exited"}
            /\ bPc[j] # "logs" => Issued(j, "ContainerLogs")
            /\ ~Issued(j, "ContainerStop")
            /\ ~FailedAt(j, "error running container for check")
            /\ \A i \in 1..Len(bChan[j]) :
                  (FetchedLogs(j) /\ WellFormed(bLogs[j])) =>
                      /\ bChan[j][i].Error = NilErr
                      /\ bChan[j][i].Output # <<>>

\* A container that exited with a status other than zero: its run has
\* delivered the logs as a success result.
C23_Witness ==
    \E j \in Jobs :
        /\ bWait[j] = Waited(1, NilErr)
        /\ bPc[j] = "exited"
        /\ Len(bChan[j]) = 1
        /\ bChan[j][1] = RunResult(<<"o", "\n">>, NilErr)

----------------------------------------------------------------------------
(* Retry Executor: properties *)

NonPermanentFailure(err) == err # NilErr /\ ~ErrorsIs(err, ErrPermanent)

\* C9: with a Retryer built by NewRetryer for a ceiling N >= 0, a call whose
\* operation failed with a non-permanent error on every attempt has invoked
\* the operation exactly N+1 times when it returns, and returns the error of
\* the last invocation.
C9_AllFailCallsCeilingPlusOne ==
    ( /\ rSt.pc = "returned"
      /\ rCfg = NewRetryer(rCfg.retries)
      /\ \A i \in 1..Len(rHist) : NonPermanentFailure(rHist[i]) )
    => /\ Len(rHist) = rCfg.retries + 1
       /\ rSt.ret = rHist[Len(rHist)]

\* With ceiling 2 the operation failed three times, last with another error
\* than before, and that error was returned.
C9_Witness ==
    /\ rSt.pc = "returned"
    /\ rCfg = NewRetryer(2)
    /\ rHist = <<ErrTest, ErrTest, ErrOther>>
    /\ rSt.ret = ErrOther

\* C10: an invocation that returns an error wrapping the Permanent sentinel
\* is the last one: WithRetries has returned, with that error, which matches
\* the sentinel, whatever budget remains.
C10_PermanentStopsRetrying ==
    \A k \in 1..Len(rHist) :
        ErrorsIs(rHist[k], ErrPermanent) =>
            /\ k = Len(rHist)
            /\ rSt.pc = "returned"
            /\ rSt.ret = rHist[k]
            /\ ErrorsIs(rSt.ret, ErrPermanent)

\* With ceiling 2 the second invocation returned a wrapped Permanent error:
\* two calls, one retry of the budget left unused.
C10_Witness ==
    /\ rSt.pc = "returned"
    /\ rCfg = NewRetryer(2)
    /\ rHist = <<ErrTest, ErrWrappedPermanent>>
    /\ rSt.ret = ErrWrappedPermanent

\* C11: an invocation that returns nil is the last one: WithRetries has
\* returned nil after exactly that many invocations, the earlier ones having
\* failed with non-permanent errors; a first invocation that returns nil is
\* the only one.
C11_SuccessStopsRetrying ==
    \A k \in 1..Len(rHist) :
        rHist[k] = NilErr =>
            /\ k = Len(rHist)
            /\ rSt.pc = "returned"
            /\ rSt.ret = NilErr
            /\ \A i \in 1..(k - 1) : NonPermanentFailure(rHist[i])

\* With ceiling 2 the operation failed once and then succeeded: two calls,
\* nil returned.
C11_Witness ==
    /\ rSt.pc = "returned"
    /\ rCfg = NewRetryer(2)
    /\ rHist = <<ErrTest, NilErr>>
    /\ rSt.ret = NilErr

\* C12: whatever the operation returns and whether the policy signals next
\* or done, one WithRetries call with ceiling N invokes the operation at
\* most N+1 times, at least once before it returns, and exactly once when
\* N = 0.
C12_CallsBetweenOneAndCeilingPlusOne ==
    /\ Len(rHist) <= rCfg.retries + 1
    /\ rSt.pc \in {"select", "returned"} => Len(rHist) >= 1
    /\ (rSt.pc = "returned" /\ rCfg.retries = 0) => Len(rHist) = 1

\* A Retryer with ceiling 2 whose policy gave up after one retry: the call
\* returned after two of the three invocations allowed.
C12_Witness ==
    /\ rSt.pc = "returned"
    /\ rCfg = [retries |-> 2, policyMax |-> 0]
    /\ rHist = <<ErrTest, ErrOther>>
    /\ rSt.ret = ErrOther

----------------------------------------------------------------------------
(* Aborted-Job Cache: properties *)

FetchFailed(p) == aFetch[p].made /\ aFetch[p].err # NilErr
FetchSucceeded(p) == aFetch[p].made /\ aFetch[p].err = NilErr

\* C5: an IsAborted call whose fetch failed (WithRetries returned an error)
\* leaves the cached set as it was before the call (single caller).
C5_FailedFetchKeepsCache ==
    \A p \in Procs : FetchFailed(p) => canceled = aPrev

\* C6: an IsAborted call that missed the cache and whose fetch failed
\* returns false and a non-nil error.
C6_FailedFetchReturnsError ==
    \A p \in Procs :
        (aPc[p] = "done" /\ FetchFailed(p)) =>
            (aRet[p].err # NilErr /\ aRet[p].ok = FALSE)

\* C7: once a successful refresh has installed a snapshot containing X, and
\* until another successful refresh installs another snapshot, an
\* IsAborted(X) call returns true, nil at once and issues no request.
C7_CachedAnswersWithoutFetch ==
    [][\A p \in Procs :
         (aPc[p] = "idle" /\ aPc'[p] # "idle" /\ aID'[p] \in aGood) =>
            /\ aPc'[p] = "done"
            /\ aRet'[p] = Ret(TRUE, NilErr)
            /\ aReqs'[p] = 0
            /\ ~aFetch'[p].made]_vars

\* C8: with a single caller, after a miss whose fetch succeeded with
\* snapshot S the cached set is exactly the identifiers of S, and the call
\* returns true, nil if ID is in S and false, nil if it is not.
C8_SuccessReplacesCache ==
    \A p \in Procs :
        FetchSucceeded(p) =>
            /\ canceled = ToSet(aIds[p])
            /\ aPc[p] = "done" => aRet[p] = Ret(aID[p] \in ToSet(aIds[p]), NilErr)

\* The set held a; IsAborted(b) missed and fetched the empty snapshot: a was
\* dropped and the call answered false, nil.
C8_Witness ==
    \E p \in Procs :
        /\ aPc[p] = "done" /\ FetchSucceeded(p)
        /\ aPrev = {"a"} /\ aIds[p] = <<>> /\ aID[p] = "b"
        /\ canceled = {} /\ aRet[p] = Ret(FALSE, NilErr)

\* WithRetries has returned to get, and what it returned.
FetchOver(p) == aSt[p].pc = "returned" \/ aFetch[p].made
FetchResult(p) == IF aFetch[p].made THEN aFetch[p].err ELSE aSt[p].ret

\* C13: a request answered with a status other than 200, or with a body
\* that does not decode, is the last request of its IsAborted call whatever
\* the ceiling, and the fetch ends with an error that is ErrPermanent: a call
\* whose first request is answered so issues exactly one request.  A request
\* that fails at transport level is retried: a fetch that ends on a transport
\* error has issued ceiling+1 requests when the Retryer is built by
\* NewRetryer, and never more than ceiling+1.
C13_BadResponseNotRetried ==
    \A p \in Procs :
        /\ aReqs[p] = Len(aHist[p])
        /\ aReqs[p] <= aCfg.retries + 1
        /\ \A k \in 1..Len(aHist[p]) :
              aHist[p][k] \in {"status", "decode"} =>
                  /\ k = Len(aHist[p])
                  /\ FetchOver(p)
                  /\ ErrorsIs(FetchResult(p), ErrPermanent)
        /\ (Len(aHist[p]) >= 1 /\ aHist[p][1] \in {"status", "decode"}) =>
              aReqs[p] = 1
        /\ ( /\ FetchOver(p)
             /\ aHist[p] # <<>>
             /\ aHist[p][Len(aHist[p])] = "transport" ) =>
              /\ FetchResult(p) = ErrTransport
              /\ \A k \in 1..Len(aHist[p]) : aHist[p][k] = "transport"
              /\ aCfg = NewRetryer(aCfg.retries) =>
                    aReqs[p] = aCfg.retries + 1

\* With ceiling 2 the first request was answered with a status other than
\* 200: the call has ended after that single request.
C13_Witness ==
    \E p \in Procs :
        /\ aCfg = NewRetryer(2)
        /\ aPc[p] = "done"
        /\ aHist[p] = <<"status">>
        /\ aReqs[p] = 1
        /\ aFetch[p] = [made |-> TRUE, err |-> ErrStatus]

\* C21: with any number of concurrent callers, a call that missed, fetched
\* snapshot S successfully and installed it returns true exactly when its ID
\* is in S, whatever the other calls installed before its second lookup.
C21_RecheckAgainstOwnSnapshot ==
    \A p \in Procs :
        (aPc[p] = "done" /\ FetchSucceeded(p)) =>
            (aRet[p].ok <=> aID[p] \in ToSet(aIds[p]))

----------------------------------------------------------------------------
(* Shutdown Coordinator: properties *)

DrainSteps == <<"cancelqr", "stopperDone", "qrdone", "Shutdown", "httpDone">>
IsPrefix(s, t) == Len(s) <= Len(t) /\ \A i \in 1..Len(s) : s[i] = t[i]
Done(step) == \E i \in 1..Len(mSteps) : mSteps[i] = step
\* srv.Shutdown returned an error: the statement MainWithExitCode ended on.
ShutdownFailed ==
    /\ mSteps # <<>>
    /\ mSteps[Len(mSteps)] = "Shutdown"
    /\ mErr # NilErr

\* C14: cancelqr is not invoked while no trigger has fired, it is invoked at
\* most once in the whole execution, and once MainWithExitCode has left the
\* select it has been invoked exactly once, whether or not the other trigger
\* fires later.
C14_CancelOnceAfterTrigger ==
    /\ cancelqrCalls <= 1
    /\ cancelqrCalls >= 1 => fired # {}
    /\ mPc # "select" <=> cancelqrCalls = 1
    /\ ctxqr = "canceled" <=> cancelqrCalls = 1

\* Both triggers fired and a signal is left unread in its channel: cancelqr
\* has been invoked once when MainWithExitCode returns.
C14_Witness ==
    /\ mPc = "exit"
    /\ fired = {"signal", "idle"}
    /\ sig = 1
    /\ cancelqrCalls = 1

\* C15 as stated: the drain steps complete in the order stopperDone, qrdone,
\* Shutdown, httpDone, Shutdown is not called before the read loop reported,
\* and MainWithExitCode does not return before all four completed.
C15_ReturnsAfterFourSteps ==
    /\ IsPrefix(mSteps, DrainSteps)
    /\ srvShutdown => qPc = "closed"
    /\ mPc = "exit" => mSteps = DrainSteps

\* C15, amended: the drain steps complete in the order stopperDone, qrdone,
\* Shutdown, httpDone, each after the goroutine it waits for has reported,
\* and Shutdown is not called before the read loop reported; when
\* MainWithExitCode returns, all four have completed, unless srv.Shutdown
\* returned an error: then it returns 1 after the third, without receiving
\* from httpDone.
C15_DrainInOrder ==
    /\ IsPrefix(mSteps, DrainSteps)
    /\ Done("stopperDone") => tPc \in {"closed", "ended"}
    /\ Done("qrdone") => qPc = "closed"
    /\ srvShutdown <=> Done("Shutdown")
    /\ Done("httpDone") => hPc = "closed"
    /\ mPc = "exit" =>
          \/ mSteps = DrainSteps
          \/ /\ mSteps = SubSeq(DrainSteps, 1, 4)
             /\ mErr = ErrShutdown
             /\ mExit = <<1>>

\* srv.Shutdown failed: MainWithExitCode has returned 1 while the serve
\* goroutine has not been heard.
C15_Witness ==
    /\ mPc = "exit"
    /\ mSteps = SubSeq(DrainSteps, 1, 4)
    /\ mExit = <<1>>
    /\ hPc = "serving"

\* C16 as stated: the exit code is 1 only when srv.Shutdown failed, and 0
\* otherwise, whatever the tracker, the read loop and the serve goroutine
\* reported.
C16_ExitOneOnlyOnShutdownFailure ==
    mPc = "exit" => (mExit = <<1>> <=> ShutdownFailed) /\ mExit \in {<<0>>, <<1>>}

\* C16, amended: the exit code is 1 when srv.Shutdown failed or when the
\* serve goroutine reported an error other than ErrServerClosed, and 0
\* otherwise; an error reported by the tracker or by the read loop is only
\* logged.
C16_ExitCode ==
    mPc = "exit" =>
        /\ mExit \in {<<0>>, <<1>>}
        /\ mExit = <<1>> <=>
              \/ ShutdownFailed
              \/ Done("httpDone") /\ hErr # <<ErrServerClosed>>

\* The tracker and the read loop reported errors, which were logged; the
\* listener had failed before Shutdown, and its error made the exit code 1.
C16_Witness ==
    /\ mPc = "exit"
    /\ mLog = <<"error stopping the reader tracker", "error stopping agent",
                "http server stopped with error">>
    /\ hErr = ErrListen
    /\ mExit = <<1>>

\* C22: once a trigger has fired, MainWithExitCode returns; and when the
\* select has taken the tracker's value, so that the tracker has nothing
\* more to send, the receive on stopperDone that follows completes and the
\* drain reaches the receive on qrdone and passes it.
C22_EventuallyReturns ==
    /\ (fired # {}) ~> (mPc = "exit")
    /\ (mPc = "stopperDone" /\ tPc = "closed") ~> Done("qrdone")

\* No signal ever arrived: the idle tracker fired, the select took its
\* value, and MainWithExitCode went through the whole drain and returned.
C22_Witness ==
    /\ mPc = "exit"
    /\ fired = {"idle"}
    /\ tPc = "closed"
    /\ mSteps = DrainSteps
    /\ mExit = <<0>>

====
